---- MODULE Spec2Model ----
(***************************************************************************)
(* The Text object tag of label-studio-frontend (src/tags/object/Text.js): *)
(* the TextModel store (regions, activeStates, createRegion, addRegion,    *)
(* fromStateJSON) and the TextPieceView component (render, alignWord,      *)
(* alignRange, captureDocumentSelection, onMouseUp, _handleUpdate).        *)
(*                                                                         *)
(* The rendered root is kept as the pre-order sequence of its leaves (text *)
(* nodes and BR elements).  The DIV root and the highlight SPANs are       *)
(* elements that carry no characters: the traversals of the code recurse   *)
(* through them and act on the leaves only, so each leaf records the       *)
(* markers (SPANs) that wrap it, innermost first.                          *)
(***************************************************************************)
EXTENDS Integers, Sequences, FiniteSets, TLC

(* Bounds of the model. *)
MaxLen == 3
MaxRegions == 2
MaxPasses == 2
MaxRanges == 2
MaxSerialized == 1
MaxMouseUps == 2

Space == " "
Newline == "\n"
Alphabet == {"a", Space, Newline}

(* The values runTemplate/atob can produce (getValue, render), non-empty:  *)
(* HtxTextView renders nothing for an empty value.                         *)
TextValues == UNION {[1..n -> Alphabet] : n \in 1..MaxLen}

Granularities == {"symbol", "word", "sentence", "paragraph"}

VARIABLES
  value,             \* the TextValue: runTemplate(item.value, task.dataObj)
  granularity,       \* item.granularity
  selectionenabled,  \* item.selectionenabled
  activeStates,      \* item.activeStates(): "null", "empty" or "selected"
  regions,           \* item.regions, in insertion order
  update,            \* item._update
  root,              \* the leaves under this.myRef; <<>> before the mount
  passes,            \* _handleUpdate passes run on the current root
  mouseups,          \* mouse-up events handled so far
  last               \* the last handler that ran, its inputs and its outcome

vars == <<value, granularity, selectionenabled, activeStates, regions, update,
          root, passes, mouseups, last>>

----------------------------------------------------------------------------
(* Strings *)

Min(a, b) == IF a < b THEN a ELSE b
Max(a, b) == IF a > b THEN a ELSE b

(* String.prototype.substring(from, to), 0-based, end exclusive. *)
Substring(s, from, to) ==
  LET f == Max(0, Min(from, Len(s)))
      t == Max(0, Min(to, Len(s)))
  IN  SubSeq(s, Min(f, t) + 1, Max(f, t))

(* String.prototype.lastIndexOf(c): 0-based, -1 when absent. *)
LastIndexOf(s, c) ==
  LET hits == {i \in 1..Len(s) : s[i] = c}
  IN  IF hits = {} THEN -1 ELSE (CHOOSE i \in hits : \A j \in hits : j <= i) - 1

(* String.prototype.indexOf(c): 0-based, -1 when absent. *)
IndexOf(s, c) ==
  LET hits == {i \in 1..Len(s) : s[i] = c}
  IN  IF hits = {} THEN -1 ELSE (CHOOSE i \in hits : \A j \in hits : i <= j) - 1

----------------------------------------------------------------------------
(* The rendered tree *)

TextNode(data) == [nodeName |-> "#text", data |-> data, spans |-> <<>>]
BR == [nodeName |-> "BR", data |-> <<>>, spans |-> <<>>]

(* The characters a leaf stands for in the TextValue. *)
Chars(node) == IF node.nodeName = "BR" THEN <<Newline>> ELSE node.data

(* Node.length: the characters of a text node, the children of an element. *)
NodeLength(node) == IF node.nodeName = "#text" THEN Len(node.data) ELSE 0

RECURSIVE Render(_)
(* render: val.split("\n").join("<br/>") set as the root's innerHTML: one  *)
(* text node per non-empty run between line breaks, one BR per line break. *)
Render(val) ==
  IF val = <<>> THEN <<>>
  ELSE IF Head(val) = Newline THEN <<BR>> \o Render(Tail(val))
  ELSE LET nl  == IndexOf(val, Newline)
           run == IF nl = -1 THEN Len(val) ELSE nl
       IN  <<TextNode(SubSeq(val, 1, run))>> \o Render(SubSeq(val, run + 1, Len(val)))

RECURSIVE Content(_)
(* The characters under the root, in reading order. *)
Content(r) == IF r = <<>> THEN <<>> ELSE Chars(Head(r)) \o Content(Tail(r))

RECURSIVE Count(_, _)
(* toGlobalOffset's count: the characters of the leaves before leaf i. *)
Count(r, i) ==
  IF i <= 1 \/ r = <<>> THEN 0 ELSE Len(Chars(Head(r))) + Count(Tail(r), i - 1)

(* Utils.HTML.toGlobalOffset(root, node, len). *)
toGlobalOffset(r, node, len) == len + Count(r, node)

Undefined == [node |-> 0, left |-> 0]

RECURSIVE traverse(_, _, _)
(* findNode's traverse from leaf i on with `left` characters to go. *)
traverse(r, i, left) ==
  IF i > Len(r) THEN Undefined
  ELSE IF r[i].nodeName = "#text"
       THEN IF left - Len(r[i].data) <= 0 THEN [node |-> i, left |-> left]
            ELSE traverse(r, i + 1, left - Len(r[i].data))
       ELSE IF left - 1 < 0 THEN [node |-> i, left |-> left]
            ELSE traverse(r, i + 1, left - 1)

(* _handleUpdate's findNode(el, pos). *)
findNode(r, pos) == traverse(r, 1, pos)

(* Range.setStart/setEnd accept (node, offset) with 0 <= offset <= length  *)
(* and throw IndexSizeError otherwise.                                     *)
ValidBoundary(r, p) == p.left >= 0 /\ p.left <= NodeLength(r[p.node])

RECURSIVE SplitAt(_, _)
(* Text.splitText at character boundary g, when g is inside a text node;   *)
(* both halves stay inside the markers that wrapped the node.              *)
SplitAt(r, g) ==
  IF r = <<>> THEN <<>>
  ELSE LET n == Head(r)
           l == Len(Chars(n))
       IN  IF g >= l THEN <<n>> \o SplitAt(Tail(r), g - l)
           ELSE IF g <= 0 THEN r
           ELSE <<[n EXCEPT !.data = SubSeq(n.data, 1, g)],
                  [n EXCEPT !.data = SubSeq(n.data, g + 1, l)]>> \o Tail(r)

(* splitBoundaries(range): the text nodes that straddle the range's        *)
(* boundaries are split there.                                             *)
splitBoundaries(r, s, e) == SplitAt(SplitAt(r, s), e)

(* region.createSpans(): every leaf that lies between the boundaries of    *)
(* the region's range is wrapped in a marker of the region.                *)
createSpans(r, id, s, e) ==
  [i \in 1..Len(r) |->
     LET from == Count(r, i)
         to   == from + Len(Chars(r[i]))
     IN  IF s <= from /\ to <= e
         THEN [r[i] EXCEPT !.spans = <<id>> \o r[i].spans]
         ELSE r[i]]

NoMarkers(r) == \A i \in 1..Len(r) : r[i].spans = <<>>

----------------------------------------------------------------------------
(* The render pass *)

(* Whether the forEach body of _handleUpdate throws for this region:       *)
(* ss.node / ee.node of an undefined findNode result (TypeError), or a     *)
(* boundary that range.setStart / range.setEnd rejects (IndexSizeError).   *)
(* Nothing under the root has changed when it does.                        *)
materializeThrows(r, region) ==
  LET ss == findNode(r, region.startOffset)
      ee == findNode(r, region.endOffset)
  IN  \/ ss = Undefined
      \/ ee = Undefined
      \/ ~ValidBoundary(r, ss)
      \/ ~ValidBoundary(r, ee)

(* The forEach body of _handleUpdate for the region at index id: resolve   *)
(* both offsets, build the range, split its boundaries, create the spans.  *)
(* range.setEnd on a point before the start collapses the range there.     *)
materialize(r, id, region) ==
  LET ss == findNode(r, region.startOffset)
      ee == findNode(r, region.endOffset)
      e  == Count(r, ee.node) + ee.left
      s  == Min(Count(r, ss.node) + ss.left, e)
  IN  createSpans(splitBoundaries(r, s, e), id, s, e)

RECURSIVE forEachRegion(_, _, _)
(* item.regions.forEach(...) from region i on: an exception of one         *)
(* iteration leaves forEach, and _handleUpdate with it.                    *)
forEachRegion(r, rs, i) ==
  IF i > Len(rs) THEN [root |-> r, threw |-> FALSE, done |-> Len(rs)]
  ELSE IF materializeThrows(r, rs[i]) THEN [root |-> r, threw |-> TRUE, done |-> i - 1]
  ELSE forEachRegion(materialize(r, i, rs[i]), rs, i + 1)

handleUpdate(r, rs) == forEachRegion(r, rs, 1)

----------------------------------------------------------------------------
(* The store *)

(* createRegion(p): the TextRegionModel that is pushed on item.regions. *)
createRegion(p) ==
  [startOffset |-> p.startOffset, endOffset |-> p.endOffset,
   start |-> p.start, end |-> p.end, text |-> p.text]

(* fromStateJSON's tree under a mutation: the offsets are taken from the   *)
(* serialized startOffset/endOffset.                                       *)
treeFromOffsets(v) ==
  [startOffset |-> v.startOffset, endOffset |-> v.endOffset, start |-> "",
   end |-> "", text |-> v.text]

(* fromStateJSON's tree, built from obj.value. *)
tree(v) ==
  [startOffset |-> v.start, endOffset |-> v.end, start |-> "", end |-> "",
   text |-> v.text]

Offsets == -1..(Len(value) + 1)

(* The serialized values handed to fromStateJSON. *)
SerializedValues ==
  [start : Offsets, end : Offsets, startOffset : 0..MaxSerialized,
   endOffset : 0..MaxSerialized, text : {<<"a">>}]

FromModelTypes == {"labels", "textarea", "choices"}

NoValue == [start |-> 0, end |-> 0, startOffset |-> 0, endOffset |-> 0, text |-> <<>>]

----------------------------------------------------------------------------
(* Ranges *)

(* A boundary point (node, offset) of a Range, on a leaf of the root. *)
Point(node, offset) == [node |-> node, offset |-> offset]

(* Document order of two boundary points. *)
Before(p, q) == p.node < q.node \/ (p.node = q.node /\ p.offset < q.offset)

(* A live Range keeps denoting the same boundary while splitText runs: a   *)
(* point at offset 0 stays at the start of its node, any other point is    *)
(* in the piece that ends at or after it.  An anchor is a point in that    *)
(* form, PointOf gives the point back on the root as it is now.            *)
AnchorOf(r, p) == [g |-> Count(r, p.node) + p.offset, lead |-> p.offset = 0]

PointOf(r, a) ==
  IF a.lead
  THEN Point(CHOOSE j \in 1..Len(r) : Count(r, j) = a.g, 0)
  ELSE LET j == CHOOSE k \in 1..Len(r) :
                  /\ r[k].nodeName = "#text"
                  /\ Count(r, k) < a.g
                  /\ a.g <= Count(r, k) + Len(r[k].data)
       IN  Point(j, a.g - Count(r, j))

(* range.setStart(node, offset): IndexSizeError for an offset outside the  *)
(* node; an end that is now before the start moves to the start.           *)
setStart(r, rng, node, offset) ==
  IF rng.threw \/ offset < 0 \/ offset > NodeLength(r[node])
  THEN [rng EXCEPT !.threw = TRUE]
  ELSE [rng EXCEPT !.start = Point(node, offset),
                   !.end = IF Before(rng.end, Point(node, offset))
                           THEN Point(node, offset) ELSE rng.end]

(* range.setEnd(node, offset). *)
setEnd(r, rng, node, offset) ==
  IF rng.threw \/ offset < 0 \/ offset > NodeLength(r[node])
  THEN [rng EXCEPT !.threw = TRUE]
  ELSE [rng EXCEPT !.end = Point(node, offset),
                   !.start = IF Before(Point(node, offset), rng.start)
                             THEN Point(node, offset) ELSE rng.start]

RECURSIVE resolve(_, _, _)
(* The traversal of findIdxContainer from leaf i on: a text node or a line *)
(* break that holds the offset is returned, past the last leaf the result  *)
(* is the last valid position.                                             *)
resolve(r, i, len) ==
  IF i > Len(r) THEN [node |-> Len(r), len |-> NodeLength(r[Len(r)])]
  ELSE IF r[i].nodeName = "#text"
       THEN IF len - Len(r[i].data) <= 0 THEN [node |-> i, len |-> len]
            ELSE resolve(r, i + 1, len - Len(r[i].data))
       ELSE IF len <= 0 THEN [node |-> i, len |-> len]
            ELSE resolve(r, i + 1, len - 1)

(* Utils.HTML.findIdxContainer(globidx). *)
findIdxContainer(r, globidx) == resolve(r, 1, globidx)

(* A JavaScript number that is NaN (undefined + number). *)
NaN == [nan |-> TRUE]

(* alignWord's search for the end: the index in strright, or undefined. *)
rightIdx(strright) ==
  LET idxSpace   == IndexOf(strright, Space)
      idxNewline == IndexOf(strright, Newline)
      idx1 == IF idxNewline = -1 THEN [nan |-> FALSE, n |-> idxSpace] ELSE NaN
      idx2 == IF idxSpace = -1 THEN [nan |-> FALSE, n |-> idxNewline] ELSE idx1
  IN  IF idxNewline > 0 /\ idxSpace > 0
      THEN [nan |-> FALSE, n |-> Min(idxSpace, idxNewline)]
      ELSE idx2

(* alignWord(r, start, end) on the root as it is: rng is r, the result is  *)
(* r2, with threw set when a setStart/setEnd threw.                        *)
alignWord(r, rng, start, end) ==
  LET val     == Content(r)
      strleft == Substring(val, 0, start)
      idxL    == Max(LastIndexOf(strleft, Space), LastIndexOf(strleft, Newline))
      c1      == findIdxContainer(r, idxL + 1)
      left    == IF Len(strleft) > 0 /\ idxL = -1
                 THEN setStart(r, rng, rng.start.node, 0)
                 ELSE IF Len(strleft) > 0 /\ idxL > 0
                 THEN setStart(r, rng, c1.node, c1.len)
                 ELSE rng
      strright == Substring(val, end, Len(val))
      found   == rightIdx(strright)
      idxR    == IF found.nan THEN 0 ELSE found.n + end
      c2      == findIdxContainer(r, idxR + 1)
  IN  IF Len(strright) = 0 \/ found.nan THEN left
      ELSE IF idxR = -1
      THEN setEnd(r, left, rng.end.node, NodeLength(r[rng.end.node]))
      ELSE IF idxR > 0
      THEN setEnd(r, left, c2.node, c2.len - 1)
      ELSE left

(* alignRange(r): r itself, the word-aligned clone, or undefined. *)
alignRange(r, rng, gran, start, end) ==
  IF gran = "symbol" THEN rng
  ELSE IF gran = "word" THEN alignWord(r, rng, start, end)
  ELSE [rng EXCEPT !.undefined = TRUE]

----------------------------------------------------------------------------
(* The platform selection *)

(* The boundary points in the text nodes under the root, as anchors. *)
TextAnchors(r) ==
  {a \in [g : 0..Len(Content(r)), lead : BOOLEAN] :
     \E j \in 1..Len(r) :
        /\ r[j].nodeName = "#text"
        /\ IF a.lead THEN Count(r, j) = a.g
           ELSE Count(r, j) < a.g /\ a.g <= Count(r, j) + Len(r[j].data)}

(* One range of the selection, inside the root: start and end in text      *)
(* nodes, or the end in the DIV after its last child (div).                *)
SelectionRanges(r) ==
  {x \in [start : TextAnchors(r), end : TextAnchors(r), div : BOOLEAN] :
     IF x.div THEN x.end = x.start /\ x.start.g < Len(Content(r))
     ELSE x.start.g < x.end.g}

GlobalEnd(r, x) == IF x.div THEN Len(Content(r)) ELSE x.end.g

RECURSIVE RangesFrom(_, _, _)
(* Up to n disjoint ranges in document order, none starting before from. *)
RangesFrom(r, from, n) ==
  IF n = 0 THEN {<<>>}
  ELSE {<<>>} \cup
       UNION {{<<x>> \o t : t \in RangesFrom(r, GlobalEnd(r, x), n - 1)} :
              x \in {y \in SelectionRanges(r) : y.start.g >= from}}

(* window.getSelection(): collapsed (<<>>), or 1..MaxRanges ranges. *)
Selections(r) == RangesFrom(r, 0, MaxRanges)

(* The text of one range of the selection. *)
RangeText(r, x) == Substring(Content(r), x.start.g, GlobalEnd(r, x))

RECURSIVE toString(_, _, _)
(* selection.toString(): the text of its ranges, one after the other. *)
toString(r, sel, i) ==
  IF i > Len(sel) THEN <<>> ELSE RangeText(r, sel[i]) \o toString(r, sel, i + 1)

(* Lines 287-289: an end in the DIV is moved to the end of the start       *)
(* container (getRangeAt gives the selection's own range).                 *)
clampEnd(r, x) ==
  IF x.div
  THEN LET p == PointOf(r, x.start)
       IN  [x EXCEPT !.div = FALSE,
                     !.end = AnchorOf(r, Point(p.node, NodeLength(r[p.node])))]
  ELSE x

(* Utils.HTML.mainOffsets(root): the global offsets of the selection's     *)
(* first range.                                                            *)
mainOffsets(r, sel) ==
  LET sp == PointOf(r, sel[1].start)
      ep == PointOf(r, sel[1].end)
  IN  [start |-> toGlobalOffset(r, sp.node, sp.offset),
       end   |-> toGlobalOffset(r, ep.node, ep.offset)]

RECURSIVE captureRanges(_, _, _, _, _, _)

(* The try block for the aligned range r2 of range i: xpath.fromRange,     *)
(* splitBoundaries, the selection's text and both global offsets.          *)
normalize(r, sel, gran, i, ranges, aligned, r2, split) ==
  LET sp == PointOf(split, AnchorOf(r, r2.start))
      ep == PointOf(split, AnchorOf(r, r2.end))
      normedRange ==
        [start |-> "xpath", end |-> "xpath", text |-> toString(r, sel, 1),
         startOffset |-> toGlobalOffset(split, sp.node, sp.offset),
         endOffset |-> toGlobalOffset(split, ep.node, ep.offset)]
  IN  captureRanges(split, sel, gran, i + 1, Append(ranges, normedRange), aligned)

(* The loop body after alignRange has returned r2 for the offsets mo: an   *)
(* exception of alignRange leaves the method; an undefined r2 throws       *)
(* inside the try (at the latest on r.startContainer) and is dropped.      *)
captureRange(r, sel, gran, i, ranges, aligned, mo, r2) ==
  LET s    == Count(r, r2.start.node) + r2.start.offset
      e    == Count(r, r2.end.node) + r2.end.offset
      seen == IF i = 1 THEN <<[raw |-> mo, start |-> s, end |-> e]>> ELSE aligned
  IN  IF r2.threw
      THEN [root |-> r, ranges |-> ranges, threw |-> TRUE, aligned |-> aligned]
      ELSE IF r2.undefined
      THEN captureRanges(r, sel, gran, i + 1, ranges, aligned)
      ELSE normalize(r, sel, gran, i, ranges, seen, r2, splitBoundaries(r, s, e))

(* The loop body for range i of the selection sel, its end already moved   *)
(* out of the DIV.                                                         *)
alignAndCapture(r, sel, gran, i, ranges, aligned, mo) ==
  captureRange(r, sel, gran, i, ranges, aligned, mo,
               alignRange(r, [start |-> PointOf(r, sel[i].start),
                              end |-> PointOf(r, sel[i].end),
                              threw |-> FALSE, undefined |-> FALSE],
                          gran, mo.start, mo.end))

(* The for loop of captureDocumentSelection from range i on. *)
captureRanges(r, selection, gran, i, ranges, aligned) ==
  IF i > Len(selection)
  THEN [root |-> r, ranges |-> ranges, threw |-> FALSE, aligned |-> aligned]
  ELSE LET sel == [selection EXCEPT ![i] = clampEnd(r, selection[i])]
       IN  alignAndCapture(r, sel, gran, i, ranges, aligned, mainOffsets(r, sel))

(* captureDocumentSelection(). *)
captureDocumentSelection(r, selection, gran) ==
  IF selection = <<>>
  THEN [root |-> r, ranges |-> <<>>, threw |-> FALSE, aligned |-> <<>>]
  ELSE captureRanges(r, selection, gran, 1, <<>>, <<>>)

Idle ==
  [op |-> "init", threw |-> FALSE, fresh |-> FALSE, done |-> 0,
   fromModel |-> "", obj |-> NoValue,
   collapsed |-> FALSE, rangeCount |-> 0, states |-> "", before |-> <<>>,
   aligned |-> <<>>, ranges |-> <<>>]

----------------------------------------------------------------------------
(* Actions *)

Init ==
  /\ value \in TextValues
  /\ granularity = "symbol"
  /\ selectionenabled = TRUE
  /\ activeStates = "empty"
  /\ regions = <<>>
  /\ update = 1
  /\ root = <<>>
  /\ passes = 0
  /\ mouseups = 0
  /\ last = Idle

(* componentDidMount: the root is rendered from the value, then            *)
(* _handleUpdate runs.                                                     *)
componentDidMount ==
  /\ root = <<>>
  /\ LET res == handleUpdate(Render(value), regions)
     IN  /\ root' = res.root
         /\ last' = [Idle EXCEPT !.op = "mount", !.threw = res.threw,
                                 !.fresh = TRUE, !.done = res.done]
  /\ passes' = 1
  /\ UNCHANGED <<value, granularity, selectionenabled, activeStates, regions, update,
                 mouseups>>

(* componentDidUpdate: render() yields the same __html for the same value, *)
(* so the children of the root stay as they are, then _handleUpdate runs.  *)
componentDidUpdate ==
  /\ root # <<>>
  /\ passes < MaxPasses
  /\ LET res == handleUpdate(root, regions)
     IN  /\ root' = res.root
         /\ last' = [Idle EXCEPT !.op = "update", !.threw = res.threw,
                                 !.fresh = NoMarkers(root), !.done = res.done]
  /\ passes' = passes + 1
  /\ UNCHANGED <<value, granularity, selectionenabled, activeStates, regions, update,
                 mouseups>>

(* fromStateJSON(obj, fromModel). *)
fromStateJSON ==
  /\ Len(regions) < MaxRegions
  /\ \E v \in SerializedValues, type \in FromModelTypes :
       IF type = "textarea" \/ type = "choices"
       THEN /\ last' = [Idle EXCEPT !.op = "json", !.fromModel = type,
                                    !.before = regions]
            /\ UNCHANGED <<regions, update>>
       ELSE /\ regions' = Append(regions, createRegion(tree(v)))
            /\ update' = update + 1
            /\ last' = [Idle EXCEPT !.op = "json", !.fromModel = type, !.obj = v,
                                    !.before = regions]
  /\ UNCHANGED <<value, granularity, selectionenabled, activeStates, root, passes,
                 mouseups>>

(* The label layer: the Labels/Rating states of this object get selected  *)
(* or unselected.                                                          *)
selectStates ==
  /\ activeStates # "null"
  /\ activeStates' = IF activeStates = "empty" THEN "selected" ELSE "empty"
  /\ last' = [Idle EXCEPT !.op = "select"]
  /\ UNCHANGED <<value, granularity, selectionenabled, regions, update, root, passes,
                 mouseups>>

(* addRegion(range): nothing without active states, else createRegion and  *)
(* unselectAll on every active state.                                      *)
addRegion(rs, states, range) ==
  IF states = "empty" THEN [regions |-> rs, states |-> states]
  ELSE [regions |-> Append(rs, createRegion(range)), states |-> "empty"]

(* Line 331: onMouseUp returns at once unless selection is enabled. *)
returnsEarly(enabled) == ~enabled

(* Line 337: nothing is added without active states or without ranges. *)
nothingToAdd(states, selectedRanges) ==
  states = "null" \/ states = "empty" \/ Len(selectedRanges) = 0

(* onMouseUp(ev). *)
onMouseUp ==
  /\ root # <<>>
  /\ mouseups < MaxMouseUps
  /\ mouseups' = mouseups + 1
  /\ \E selection \in Selections(root) :
       LET base == [Idle EXCEPT !.op = "mouseup", !.collapsed = (selection = <<>>),
                                !.rangeCount = Len(selection), !.states = activeStates,
                                !.before = regions]
       IN  IF returnsEarly(selectionenabled)
           THEN /\ last' = base
                /\ UNCHANGED <<root, regions, activeStates>>
           ELSE \E cap \in {captureDocumentSelection(root, selection, granularity)} :
                  IF cap.threw
                  THEN /\ last' = [base EXCEPT !.threw = TRUE, !.aligned = cap.aligned]
                       /\ root' = cap.root
                       /\ UNCHANGED <<regions, activeStates>>
                  ELSE IF nothingToAdd(activeStates, cap.ranges)
                  THEN /\ last' = [base EXCEPT !.aligned = cap.aligned,
                                               !.ranges = cap.ranges]
                       /\ root' = cap.root
                       /\ UNCHANGED <<regions, activeStates>>
                  ELSE \E add \in {addRegion(regions, activeStates, cap.ranges[1])} :
                         /\ last' = [base EXCEPT !.aligned = cap.aligned,
                                                 !.ranges = cap.ranges]
                         /\ regions' = add.regions
                         /\ activeStates' = add.states
                         /\ root' = createSpans(cap.root, Len(add.regions),
                                                cap.ranges[1].startOffset,
                                                cap.ranges[1].endOffset)
  /\ UNCHANGED <<value, granularity, selectionenabled, update, passes>>

Next ==
  \/ componentDidMount
  \/ componentDidUpdate
  \/ fromStateJSON

Spec == Init /\ [][Next]_vars

(* The selection machine: every attribute configuration of the tag. *)
InitAttrs ==
  /\ value \in TextValues
  /\ granularity \in Granularities
  /\ selectionenabled \in BOOLEAN
  /\ activeStates \in {"null", "empty"}
  /\ regions = <<>>
  /\ update = 1
  /\ root = <<>>
  /\ passes = 0
  /\ mouseups = 0
  /\ last = Idle

NextAttrs ==
  \/ componentDidMount
  \/ componentDidUpdate
  \/ selectStates
  \/ onMouseUp

SpecAttrs == InitAttrs /\ [][NextAttrs]_vars

----------------------------------------------------------------------------
(* Properties *)

Length == Len(value)

EndsWithLineBreak == value[Length] = Newline

(* The positions (node, localOffset) of toGlobalOffset on a leaf: 0..length *)
(* in a text node, 0 or 1 on a line break.                                 *)
LocalOffsets(node) == 0..(IF node.nodeName = "BR" THEN 1 ELSE Len(node.data))

(* toGlobalOffset, then findNode, gives a position at the same offset. *)
RoundTrips(r, node, len) ==
  LET res == findNode(r, toGlobalOffset(r, node, len))
  IN  /\ res # Undefined
      /\ toGlobalOffset(r, res.node, res.left) = toGlobalOffset(r, node, len)

(* C1: for every position (node, localOffset) under the root, whatever the *)
(* fragmentation, toGlobalOffset followed by findNode returns a position   *)
(* with the same global offset.                                            *)
C1_RoundTrip ==
  \A i \in 1..Len(root) : \A o \in LocalOffsets(root[i]) : RoundTrips(root, i, o)

(* The round trip fails at the end of a content that ends with a line      *)
(* break, and nowhere else.                                                *)
RoundTripBeforeTrailingBreak ==
  \A i \in 1..Len(root) : \A o \in LocalOffsets(root[i]) :
     (toGlobalOffset(root, i, o) < Length \/ ~EndsWithLineBreak) => RoundTrips(root, i, o)

(* The rendered characters are those of the value, however fragmented. *)
ContentIsValue == root # <<>> => Content(root) = value

(* Region id has markers on exactly the leaves between its offsets. *)
Covers(r, id, s, e) ==
  \A j \in 1..Len(r) :
     (\E k \in 1..Len(r[j].spans) : r[j].spans[k] = id)
       <=> (s <= Count(r, j) /\ Count(r, j) + Len(Chars(r[j])) <= e)

Materialized(id) == Covers(root, id, regions[id].startOffset, regions[id].endOffset)

AfterPass == last.op = "mount" \/ last.op = "update"

(* C2: after a render pass every Region whose own offsets resolve has its  *)
(* markers, whatever happened to the other Regions of the list.            *)
C2_FailureIsolation ==
  AfterPass =>
    \A id \in 1..Len(regions) : ~materializeThrows(root, regions[id]) => Materialized(id)

(* C5: no character is wrapped twice by markers of the same Region. *)
C5_NoDuplicateMarkers ==
  \A j \in 1..Len(root) : \A id \in 1..Len(regions) :
     Cardinality({k \in 1..Len(root[j].spans) : root[j].spans[k] = id}) <= 1

ValidInterval(region) ==
  0 <= region.startOffset /\ region.startOffset < region.endOffset
    /\ region.endOffset <= Length

Overlapping(a, b) ==
  Max(a.startOffset, b.startOffset) < Min(a.endOffset, b.endOffset)

OverlapPass ==
  /\ AfterPass
  /\ last.fresh
  /\ Len(regions) = 2
  /\ ValidInterval(regions[1])
  /\ ValidInterval(regions[2])
  /\ Overlapping(regions[1], regions[2])

(* C6: after a pass over a marker-free root with two overlapping Regions,  *)
(* the markers of each cover exactly its characters [startOffset,          *)
(* endOffset) of the value.                                                *)
C6_OverlapNonCorruption ==
  OverlapPass => ContentIsValue /\ Materialized(1) /\ Materialized(2)

(* Overlapping Regions lose their markers only to an offset that findNode  *)
(* cannot resolve (the end of a content that ends with a line break).      *)
OverlapOfResolvableRegions ==
  (OverlapPass /\ ~last.threw) => ContentIsValue /\ Materialized(1) /\ Materialized(2)

OverlapPassOnlyThrowsAtTrailingBreak ==
  (OverlapPass /\ last.threw) =>
     EndsWithLineBreak /\ \E id \in 1..2 : regions[id].endOffset = Length

Restored == last.op = "json" /\ last.fromModel \notin {"textarea", "choices"}

(* C7: the Region that fromStateJSON appends has the serialized            *)
(* startOffset and endOffset.                                              *)
C7_SerializedOffsets ==
  Restored =>
    /\ regions[Len(regions)].startOffset = last.obj.startOffset
    /\ regions[Len(regions)].endOffset = last.obj.endOffset

(* C7 as amended: fromStateJSON appends exactly one Region, whose          *)
(* startOffset and endOffset are the serialized start and end, whose       *)
(* start and end are empty and whose text is the serialized text; a        *)
(* textarea or choices source appends nothing.                             *)
C7_StartEndOffsets ==
  /\ Restored =>
       /\ Len(regions) = Len(last.before) + 1
       /\ SubSeq(regions, 1, Len(last.before)) = last.before
       /\ regions[Len(regions)].startOffset = last.obj.start
       /\ regions[Len(regions)].endOffset = last.obj.end
       /\ regions[Len(regions)].start = ""
       /\ regions[Len(regions)].end = ""
       /\ regions[Len(regions)].text = last.obj.text
  /\ (last.op = "json" /\ ~Restored) => regions = last.before

C7_RestoredWitness ==
  /\ Restored
  /\ last.obj.start # last.obj.startOffset
  /\ last.obj.end # last.obj.endOffset
  /\ regions[Len(regions)].startOffset = last.obj.start

(* C8: findNode resolves the offset length(TextValue) to a position on a   *)
(* node of the rendered root.                                              *)
C8_EndOfContent == root # <<>> => findNode(root, Length) # Undefined

(* The end of the content resolves unless the content ends with a line     *)
(* break.                                                                  *)
EndOfContentWithoutTrailingBreak ==
  (root # <<>> /\ ~EndsWithLineBreak) =>
     /\ findNode(root, Length) # Undefined
     /\ ValidBoundary(root, [node |-> findNode(root, Length).node,
                             left |-> findNode(root, Length).left])
     /\ toGlobalOffset(root, findNode(root, Length).node, findNode(root, Length).left)
          = Length

AfterMouseUp == last.op = "mouseup"

Boundaries == {Space, Newline}

(* The start the word rule gives for a raw start: the index after the      *)
(* nearest space or line break before it, 0 when there is none; when the   *)
(* nearest one is at index 0 both readings of the rule (0 and 1) count.    *)
WordStarts(val, start) ==
  LET before == {i \in 0..(start - 1) : val[i + 1] \in Boundaries}
      idx    == CHOOSE i \in before : \A j \in before : j <= i
  IN  IF before = {} THEN {0} ELSE IF idx = 0 THEN {0, 1} ELSE {idx + 1}

(* The end the word rule gives for a raw end: the index of the nearest     *)
(* space or line break at or after it, the length when there is none.      *)
WordEnd(val, end) ==
  LET after == {i \in end..(Len(val) - 1) : val[i + 1] \in Boundaries}
  IN  IF after = {} THEN Len(val) ELSE CHOOSE i \in after : \A j \in after : i <= j

(* C3: under word granularity the range that alignWord returns for a raw   *)
(* selection (start, end), start < end, starts right after the nearest     *)
(* space or line break before start (0 without one) and ends at the        *)
(* nearest space or line break at or after end (the length without one).   *)
C3_WordAlignment ==
  (AfterMouseUp /\ granularity = "word" /\ last.aligned # <<>>
     /\ last.aligned[1].raw.start < last.aligned[1].raw.end) =>
    /\ last.aligned[1].start \in WordStarts(value, last.aligned[1].raw.start)
    /\ last.aligned[1].end = WordEnd(value, last.aligned[1].raw.end)

(* C4: every range that captureDocumentSelection returns carries the text  *)
(* of the value between its offsets.                                       *)
C4_CapturedText ==
  AfterMouseUp =>
    \A k \in 1..Len(last.ranges) :
       last.ranges[k].text
         = Substring(value, last.ranges[k].startOffset, last.ranges[k].endOffset)

(* The captured text is the text between the offsets for a selection of    *)
(* one range under symbol granularity.                                     *)
CapturedTextOfOneSymbolRange ==
  (AfterMouseUp /\ granularity = "symbol" /\ last.rangeCount = 1) =>
    \A k \in 1..Len(last.ranges) :
       last.ranges[k].text
         = Substring(value, last.ranges[k].startOffset, last.ranges[k].endOffset)

(* What the caller of captureDocumentSelection and onMouseUp can observe. *)
Outcome ==
  [ranges |-> last.ranges, threw |-> last.threw,
   added |-> Len(regions) - Len(last.before)]

(* The outcome of a collapsed selection: no range, no error, no Region. *)
CollapsedOutcome == [ranges |-> <<>>, threw |-> FALSE, added |-> 0]

(* C9: with selection enabled, the outcome of a mouse-up on a              *)
(* non-collapsed selection under sentence or paragraph granularity differs *)
(* from the outcome of a collapsed selection.                              *)
C9_UnsupportedIsDistinct ==
  (AfterMouseUp /\ selectionenabled /\ ~last.collapsed
     /\ granularity \in {"sentence", "paragraph"}) =>
    Outcome # CollapsedOutcome

CreationGuard == selectionenabled /\ ~last.collapsed /\ last.states = "selected"

GrewByOne ==
  /\ Len(regions) = Len(last.before) + 1
  /\ SubSeq(regions, 1, Len(last.before)) = last.before

(* C10: a mouse-up leaves the Region list unchanged unless selection is    *)
(* enabled, the selection is not collapsed and a Labels/Rating state is    *)
(* selected; when all three hold the list grows by exactly one Region.     *)
C10_GuardAlwaysCreates ==
  AfterMouseUp => IF CreationGuard THEN GrewByOne ELSE regions = last.before

(* What onMouseUp does do: the list changes only under the three          *)
(* conditions; when they hold and captureDocumentSelection returns at      *)
(* least one range, the list grows by exactly one Region, built from the   *)
(* first returned range, however many ranges the selection has; when it    *)
(* returns none, the list is unchanged.                                    *)
GuardCreatesFromFirstRange ==
  AfterMouseUp =>
    IF CreationGuard /\ last.ranges # <<>>
    THEN /\ GrewByOne
         /\ regions[Len(regions)].startOffset = last.ranges[1].startOffset
         /\ regions[Len(regions)].endOffset = last.ranges[1].endOffset
         /\ regions[Len(regions)].text = last.ranges[1].text
    ELSE regions = last.before

(* Under symbol granularity the three conditions always create a Region. *)
GuardCreatesUnderSymbol == granularity = "symbol" => C10_GuardAlwaysCreates

(* A selection of two ranges under the three conditions adds one Region. *)
TwoRangesOneRegion ==
  /\ AfterMouseUp
  /\ CreationGuard
  /\ last.rangeCount = 2
  /\ Len(last.ranges) = 2
  /\ GrewByOne

====
